---- MODULE Spec2Model ----
(***************************************************************************)
(* Model of the text / path / filesystem utilities of the toolkit:         *)
(*   packages/core/src/shared/filesystemUtilities.ts                       *)
(*   packages/core/src/codewhisperer/util/supplementalContext/             *)
(*       codeParsingUtil.ts                                                *)
(*   the inline-completion helpers (getPrefixSuffixOverlap,                *)
(*       asyncCallWithTimeout)                                             *)
(*   auth/ui/vue/show.ts (showAuthWebview)                                 *)
(*                                                                         *)
(* A JavaScript string is modelled as a sequence of one-character strings, *)
(* so that slicing, searching, splitting and regular-expression matching   *)
(* are computed character by character, as the runtime computes them.      *)
(***************************************************************************)
EXTENDS Integers, Sequences, FiniteSets, TLC

VARIABLES
    call,       \* the last completed call of a synchronous helper: [op, args, ret]
    lastIndex,  \* RegExp.lastIndex of every extraction pattern object of the table
    fsNames,    \* getNonexistentFilename: the file names that exist in dir
    dirExists,  \* getNonexistentFilename: fs.existsDir(dir)
    gn,         \* getNonexistentFilename: the running call: its locals, its position,
                \* the number of fs.existsDir and fs.exists calls made and the last
                \* name probed
    st,         \* getDirSize: state of the promise of every node of the tree
    val,        \* getDirSize: value a fulfilled promise carries
    clock,      \* getDirSize: performance.now() - startTime
    duration,   \* getDirSize: the time budget of the call
    began,      \* getDirSize: directories whose visit passed the budget check
    late,       \* getDirSize: directories whose visit was cut by the budget check
    rm,         \* tryRemoveFolder: the running call: its argument, its position,
                \* the fs.delete calls made, the warnings logged, its outcome
    rmFolders,  \* tryRemoveFolder: the folders that exist
    ac,         \* asyncCallWithTimeout: the arguments of the call and its position
    promises,   \* asyncCallWithTimeout: state and value of every promise involved
    timeoutHandle, \* asyncCallWithTimeout: the timer setTimeout returned
    jobs,       \* asyncCallWithTimeout: the queue of promise reaction jobs
    now,        \* asyncCallWithTimeout: time since the call
    activePanel,   \* show.ts: the module variable activePanel
    subscriptions, \* show.ts: the module variable subscriptions
    panels,     \* show.ts: every Panel instance constructed, with its webview
    pending     \* show.ts: the calls of showAuthWebview suspended at their await

removeVars == <<rm, rmFolders>>

timeoutVars == <<ac, promises, timeoutHandle, jobs, now>>

panelVars == <<activePanel, subscriptions, panels, pending>>

vars == <<call, lastIndex, fsNames, dirExists, gn, st, val, clock, duration, began, late, removeVars, timeoutVars, panelVars>>

(***************************************************************************)
(* Bounds of the model.                                                    *)
(***************************************************************************)
MaxTestDirs == 1    \* isTestFile: directory segments in front of the file name
MaxDirs == 2        \* isInDirectory, getFileDistance: segments of a directory path
MaxStr == 3         \* getPrefixSuffixOverlap: length of a string
MaxList == 2        \* length of the needle / haystack lists
MaxChunks == 2      \* chunks a file content is made of
MaxAttempts == 3    \* largest value of the parameter max of getNonexistentFilename
MaxClock == 2       \* largest elapsed time observed
MaxDuration == 1    \* largest time budget

(***************************************************************************)
(* Strings.                                                                *)
(***************************************************************************)
Min(a, b) == IF a < b THEN a ELSE b

Max(a, b) == IF a < b THEN b ELSE a

UpperCase == <<"A","B","C","D","E","F","G","H","I","J","K","L","M",
               "N","O","P","Q","R","S","T","U","V","W","X","Y","Z">>

LowerCase == <<"a","b","c","d","e","f","g","h","i","j","k","l","m",
               "n","o","p","q","r","s","t","u","v","w","x","y","z">>

Range(s) == {s[i] : i \in 1..Len(s)}

\* String.prototype.toLowerCase, one character
LowerChar(c) ==
    IF c \in Range(UpperCase)
    THEN LowerCase[CHOOSE i \in 1..Len(UpperCase) : UpperCase[i] = c]
    ELSE c

\* String.prototype.toLowerCase
toLowerCase(s) == [i \in 1..Len(s) |-> LowerChar(s[i])]

\* String.prototype.slice(from, to) with 0 <= from, to: characters from+1 .. to
slice(s, from, to) == SubSeq(s, Min(from, Len(s)) + 1, Min(to, Len(s)))

\* String.prototype.slice(-n) with n > 0: the last n characters
sliceLast(s, n) == SubSeq(s, Max(Len(s) - n, 0) + 1, Len(s))

\* String.prototype.includes
includes(s, sub) ==
    \E p \in 0..(Len(s) - Len(sub)) : SubSeq(s, p + 1, p + Len(sub)) = sub

RECURSIVE splitFrom(_, _, _)
\* the pieces of s[from..] between the occurrences of the character sep
splitFrom(s, sep, from) ==
    IF \A i \in from..Len(s) : s[i] # sep
    THEN <<SubSeq(s, from, Len(s))>>
    ELSE LET k == CHOOSE i \in from..Len(s) :
                      s[i] = sep /\ \A j \in from..(i - 1) : s[j] # sep
         IN  <<SubSeq(s, from, k - 1)>> \o splitFrom(s, sep, k + 1)

\* String.prototype.split with a one-character separator
split(s, sep) == splitFrom(s, sep, 1)

RECURSIVE concat(_)
\* the concatenation of a sequence of strings
concat(ss) == IF ss = <<>> THEN <<>> ELSE Head(ss) \o concat(Tail(ss))

RECURSIVE joinWith(_, _)
\* Array.prototype.join with the separator sep
joinWith(ss, sep) ==
    IF Len(ss) = 0 THEN <<>>
    ELSE IF Len(ss) = 1 THEN ss[1]
    ELSE ss[1] \o sep \o joinWith(Tail(ss), sep)

(***************************************************************************)
(* shared/utilities/pathUtils: the separators of a path become "/".        *)
(***************************************************************************)
normalizeSeparator(p) == [i \in 1..Len(p) |-> IF p[i] = "\\" THEN "/" ELSE p[i]]

normalize(p) == normalizeSeparator(p)

RECURSIVE stripTrailingSlashes(_)
stripTrailingSlashes(p) ==
    IF Len(p) > 1 /\ p[Len(p)] = "/" THEN stripTrailingSlashes(SubSeq(p, 1, Len(p) - 1))
    ELSE p

\* path.basename (posix): the last portion of the path, trailing separators ignored
basename(p) ==
    LET q == stripTrailingSlashes(p)
        pieces == split(q, "/")
    IN  pieces[Len(pieces)]

(***************************************************************************)
(* Regular expressions (the subset of ECMAScript the table uses).          *)
(* A pattern is a syntax tree; Match computes, as the backtracking matcher *)
(* of the runtime does, the outcomes of matching a node at position pos    *)
(* (the number of characters in front of it) in priority order. An outcome *)
(* is [e |-> end position, c |-> span of capture group 1 or <<>>]. The     *)
(* first outcome of the whole pattern is the match the runtime reports.    *)
(***************************************************************************)
Digits == {"0","1","2","3","4","5","6","7","8","9"}

Letters == Range(UpperCase) \cup Range(LowerCase)

WordChars == Letters \cup Digits \cup {"_"}          \* \w

SpaceChars == {" ", "\t", "\n", "\r", "\f"}          \* \s

LineTerminators == {"\n", "\r"}

Set(cs) == [t |-> "set", cs |-> cs]

NSet(cs) == [t |-> "nset", cs |-> cs]

Lit(c) == Set({c})

AnyChar == NSet(LineTerminators)                     \* .

Cat(ns) == [t |-> "cat", ns |-> ns]

Alt(ns) == [t |-> "alt", ns |-> ns]

Star(n) == [t |-> "star", n |-> n]

Plus(n) == Cat(<<n, Star(n)>>)

Opt(n) == [t |-> "opt", n |-> n]

Grp(idx, n) == [t |-> "grp", idx |-> idx, n |-> n]

Bol == [t |-> "bol"]                                 \* ^

Eol == [t |-> "eol"]                                 \* $

\* (?<=n), n a pattern that matches at most w characters
LookBehind(n, w) == [t |-> "lookbehind", n |-> n, w |-> w]

Str(s) == Cat([i \in 1..Len(s) |-> Lit(s[i])])

W == Set(WordChars)

S == Set(SpaceChars)

RECURSIVE Match(_, _, _, _, _)
RECURSIVE MatchCat(_, _, _, _, _, _)
RECURSIVE MatchCatRest(_, _, _, _, _, _)
RECURSIVE MatchAlt(_, _, _, _, _, _)
RECURSIVE MatchStar(_, _, _, _, _)
RECURSIVE MatchStarRest(_, _, _, _, _, _)

\* the outcomes of the nodes ns[i..] in sequence
MatchCat(ns, i, s, pos, cap, ml) ==
    IF i > Len(ns) THEN <<[e |-> pos, c |-> cap]>>
    ELSE MatchCatRest(Match(ns[i], s, pos, cap, ml), 1, ns, i, s, ml)

\* for every outcome outs[k..] of ns[i], in order, the outcomes of ns[i+1..]
MatchCatRest(outs, k, ns, i, s, ml) ==
    IF k > Len(outs) THEN <<>>
    ELSE MatchCat(ns, i + 1, s, outs[k].e, outs[k].c, ml)
         \o MatchCatRest(outs, k + 1, ns, i, s, ml)

\* the outcomes of the alternatives ns[i..], the leftmost alternative first
MatchAlt(ns, i, s, pos, cap, ml) ==
    IF i > Len(ns) THEN <<>>
    ELSE Match(ns[i], s, pos, cap, ml) \o MatchAlt(ns, i + 1, s, pos, cap, ml)

\* greedy n*: one more iteration first, the empty iteration last
MatchStar(n, s, pos, cap, ml) ==
    MatchStarRest(Match(n, s, pos, cap, ml), 1, n, s, pos, ml)
    \o <<[e |-> pos, c |-> cap]>>

\* an iteration that consumed nothing is not repeated
MatchStarRest(outs, k, n, s, pos, ml) ==
    IF k > Len(outs) THEN <<>>
    ELSE (IF outs[k].e > pos THEN MatchStar(n, s, outs[k].e, outs[k].c, ml) ELSE <<>>)
         \o MatchStarRest(outs, k + 1, n, s, pos, ml)

Match(n, s, pos, cap, ml) ==
    LET here == <<[e |-> pos, c |-> cap]>>
        next == <<[e |-> pos + 1, c |-> cap]>>
    IN  CASE n.t = "set" ->
                 IF pos < Len(s) /\ s[pos + 1] \in n.cs THEN next ELSE <<>>
          [] n.t = "nset" ->
                 IF pos < Len(s) /\ s[pos + 1] \notin n.cs THEN next ELSE <<>>
          [] n.t = "cat" -> MatchCat(n.ns, 1, s, pos, cap, ml)
          [] n.t = "alt" -> MatchAlt(n.ns, 1, s, pos, cap, ml)
          [] n.t = "star" -> MatchStar(n.n, s, pos, cap, ml)
          [] n.t = "opt" -> Match(n.n, s, pos, cap, ml) \o here
          [] n.t = "grp" ->
                 LET outs == Match(n.n, s, pos, cap, ml)
                 IN  [k \in 1..Len(outs) |->
                        [e |-> outs[k].e,
                         c |-> IF n.idx = 1 THEN <<pos, outs[k].e>> ELSE outs[k].c]]
          [] n.t = "bol" ->
                 IF pos = 0 \/ (ml /\ s[pos] \in LineTerminators) THEN here ELSE <<>>
          [] n.t = "eol" ->
                 IF pos = Len(s) \/ (ml /\ s[pos + 1] \in LineTerminators)
                 THEN here ELSE <<>>
          [] n.t = "lookbehind" ->
                 IF \E q \in Max(0, pos - n.w)..pos :
                        LET outs == Match(n.n, s, q, cap, ml)
                        IN  \E k \in 1..Len(outs) : outs[k].e = pos
                 THEN here ELSE <<>>

(***************************************************************************)
(* A RegExp object: its pattern and flags. lastIndex is kept apart, in the *)
(* state, for the pattern objects that the calls write to.                 *)
(***************************************************************************)
RegExp(node, flags) ==
    [re |-> node, global |-> "g" \in flags, multiline |-> "m" \in flags]

RECURSIVE firstMatchAt(_, _, _)
\* the leftmost position at or after p at which the pattern matches; -1 if none
firstMatchAt(rx, s, p) ==
    IF p > Len(s) THEN -1
    ELSE IF Match(rx.re, s, p, <<>>, rx.multiline) # <<>> THEN p
    ELSE firstMatchAt(rx, s, p + 1)

\* RegExp.prototype.exec(s) with the object's lastIndex being li:
\* [found, index, g1 (capture group 1), li (lastIndex afterwards)]
exec(rx, s, li) ==
    LET p == firstMatchAt(rx, s, IF rx.global THEN li ELSE 0)
    IN  IF p < 0
        THEN [found |-> FALSE, index |-> 0, g1 |-> <<>>,
              li |-> IF rx.global THEN 0 ELSE li]
        ELSE LET m == Match(rx.re, s, p, <<>>, rx.multiline)[1]
             IN  [found |-> TRUE, index |-> p,
                  g1 |-> IF m.c = <<>> THEN <<>> ELSE SubSeq(s, m.c[1] + 1, m.c[2]),
                  li |-> IF rx.global THEN m.e ELSE li]

\* RegExp.prototype.test
test(rx, s, li) == exec(rx, s, li).found

(***************************************************************************)
(* codeParsingUtil.ts: the language-configuration table.                   *)
(***************************************************************************)
JavaFunctionPattern ==
    RegExp(Cat(<<Alt(<<Str(<<"p","u","b","l","i","c">>), Str(<<"p","r","i","v","a","t","e">>), Str(<<"p","r","o","t","e","c","t","e","d">>)>>), Plus(S),
                 Opt(Cat(<<Str(<<"s","t","a","t","i","c">>), Plus(S)>>)),
                 Opt(Cat(<<Plus(Set(WordChars \cup {"<", ">"})), Plus(S)>>)),
                 Grp(1, Plus(W)), Star(S),
                 Lit("("), Star(NSet({")"})), Lit(")"), Star(S),
                 Opt(Cat(<<Str(<<"t","h","r","o","w","s">>), Plus(S), Plus(W)>>)), Star(S),
                 Set({"{", ";"})>>),
           {"g", "m"})

JavaClassPattern ==
    RegExp(Cat(<<LookBehind(Alt(<<Bol, Lit("\n")>>), 1), Star(S),
                 Str(<<"p","u","b","l","i","c">>), Plus(S), Str(<<"c","l","a","s","s">>), Plus(S), Grp(1, Plus(W))>>),
           {"g", "m"})

PythonFunctionPattern ==
    RegExp(Cat(<<Str(<<"d","e","f">>), Plus(S),
                 Grp(1, Cat(<<Set(Letters \cup {"_"}), Star(W)>>)),
                 Star(S), Lit("(")>>),
           {"g"})

PythonClassPattern ==
    RegExp(Cat(<<Bol, Str(<<"c","l","a","s","s">>), Plus(S), Grp(1, Plus(W)), Star(S), Lit(":")>>),
           {"g", "m"})

\* /^(.+)<infix>(<ext1>|<ext2>)$/, the shape of the script test-file patterns
InfixPattern(infix, exts) ==
    RegExp(Cat(<<Bol, Grp(1, Plus(AnyChar)), Str(infix),
                 Grp(2, Alt([i \in 1..Len(exts) |-> Str(exts[i])])), Eol>>), {})

TsTestPatterns ==
    <<InfixPattern(<<".","t","e","s","t">>, <<<<".","t","s">>, <<".","t","s","x">>>>),
      InfixPattern(<<".","s","p","e","c">>, <<<<".","t","s">>, <<".","t","s","x">>>>)>>

JsTestPatterns ==
    <<InfixPattern(<<".","t","e","s","t">>, <<<<".","j","s">>, <<".","j","s","x">>>>),
      InfixPattern(<<".","s","p","e","c">>, <<<<".","j","s">>, <<".","j","s","x">>>>)>>

utgLanguageConfigs ==
    [java |->
        [extension |-> <<".","j","a","v","a">>,
         testFilenamePattern |->
            <<RegExp(Cat(<<Bol, Grp(1, Plus(AnyChar)), Str(<<"T","e","s","t">>),
                           Grp(2, Str(<<".","j","a","v","a">>)), Eol>>), {}),
              RegExp(Cat(<<Grp(1, Plus(AnyChar)), Str(<<"T","e","s","t","s">>),
                           Grp(2, Str(<<".","j","a","v","a">>)), Eol>>), {}),
              RegExp(Cat(<<Str(<<"T","e","s","t">>), Grp(1, Plus(AnyChar)),
                           Grp(2, Str(<<".","j","a","v","a">>)), Eol>>), {})>>,
         functionExtractionPattern |-> "java.function",
         classExtractionPattern |-> "java.class"],
     python |->
        [extension |-> <<".","p","y">>,
         testFilenamePattern |->
            <<RegExp(Cat(<<Bol, Str(<<"t","e","s","t","_">>), Grp(1, Plus(AnyChar)),
                           Grp(2, Str(<<".","p","y">>)), Eol>>), {}),
              RegExp(Cat(<<Bol, Grp(1, Plus(AnyChar)), Str(<<"_","t","e","s","t">>),
                           Grp(2, Str(<<".","p","y">>)), Eol>>), {})>>,
         functionExtractionPattern |-> "python.function",
         classExtractionPattern |-> "python.class"],
     typescript |-> [extension |-> <<".","t","s">>, testFilenamePattern |-> TsTestPatterns],
     javascript |-> [extension |-> <<".","j","s">>, testFilenamePattern |-> JsTestPatterns],
     typescriptreact |-> [extension |-> <<".","t","s","x">>, testFilenamePattern |-> TsTestPatterns],
     javascriptreact |-> [extension |-> <<".","j","s","x">>, testFilenamePattern |-> JsTestPatterns]]

\* the extraction pattern objects of the table, by the name the table gives them
PatternObject(id) ==
    CASE id = "java.function" -> JavaFunctionPattern
      [] id = "java.class" -> JavaClassPattern
      [] id = "python.function" -> PythonFunctionPattern
      [] id = "python.class" -> PythonClassPattern

PatternIds == {"java.function", "java.class", "python.function", "python.class"}

\* the properties every object inherits from Object.prototype: a lookup by one of
\* these keys yields a value that is no configuration
ObjectPrototypeKeys == {"constructor", "toString", "valueOf", "hasOwnProperty"}

(***************************************************************************)
(* codeParsingUtil.ts: extractFunctions, extractClasses.                   *)
(***************************************************************************)
\* mutant of execLoop: an if in place of the while, the first match only
execLoopFirstOnly(rx, fileContent, li, names) ==
    LET match == exec(rx, fileContent, li)
    IN  IF ~match.found THEN [names |-> names, li |-> match.li]
        ELSE [names |-> Append(names, match.g1), li |-> 0]

\* mutant of execLoop: the scan stops at the first match and leaves the pattern
\* object where that match ended
execLoopKeepsPosition(rx, fileContent, li, names) ==
    LET match == exec(rx, fileContent, li)
    IN  IF ~match.found THEN [names |-> names, li |-> match.li]
        ELSE [names |-> Append(names, match.g1), li |-> match.li]

RECURSIVE execLoop(_, _, _, _)
\* while ((match = regex.exec(fileContent)) !== null) names.push(match[1])
\* [names |-> the array built, li |-> lastIndex of the pattern object afterwards]
execLoop(rx, fileContent, li, names) ==
    LET match == exec(rx, fileContent, li)
    IN  IF ~match.found THEN [names |-> names, li |-> match.li]
        ELSE execLoop(rx, fileContent, match.li, Append(names, match.g1))

\* regex is "undefined" or the id of a pattern object
extractFunctions(fileContent, regex, li) ==
    IF regex = "undefined" THEN [names |-> <<>>, li |-> li]
    ELSE execLoop(PatternObject(regex), fileContent, li, <<>>)

extractClasses(fileContent, regex, li) ==
    IF regex = "undefined" THEN [names |-> <<>>, li |-> li]
    ELSE execLoop(PatternObject(regex), fileContent, li, <<>>)

(***************************************************************************)
(* codeParsingUtil.ts: countSubstringMatches.                              *)
(***************************************************************************)
RECURSIVE countInnerCaseSensitive(_, _, _)
\* mutant of countInner: the haystack is not lower-cased
countInnerCaseSensitive(str1, arr2, j) ==
    IF j > Len(arr2) THEN 0
    ELSE (IF includes(arr2[j], toLowerCase(str1)) THEN 1 ELSE 0)
         + countInnerCaseSensitive(str1, arr2, j + 1)

RECURSIVE countInner(_, _, _)
\* the inner loop: the haystacks arr2[j..] that contain str1
countInner(str1, arr2, j) ==
    IF j > Len(arr2) THEN 0
    ELSE (IF includes(toLowerCase(arr2[j]), toLowerCase(str1)) THEN 1 ELSE 0)
         + countInner(str1, arr2, j + 1)

RECURSIVE countOuter(_, _, _)
countOuter(arr1, arr2, i) ==
    IF i > Len(arr1) THEN 0
    ELSE countInner(arr1[i], arr2, 1) + countOuter(arr1, arr2, i + 1)

countSubstringMatches(arr1, arr2) == countOuter(arr1, arr2, 1)

(***************************************************************************)
(* codeParsingUtil.ts: isTestFile, isTestFileByName.                       *)
(* A result is [threw |-> a TypeError was thrown, value |-> the boolean].  *)
(***************************************************************************)
RECURSIVE anyPatternMatches(_, _, _)
\* for (const pattern of testFilenamePattern) if (pattern.test(filename)) return true
anyPatternMatches(patterns, filename, i) ==
    IF i > Len(patterns) THEN FALSE
    ELSE IF test(patterns[i], filename, 0) THEN TRUE
    ELSE anyPatternMatches(patterns, filename, i + 1)

isTestFileByName(filePath, language) ==
    IF language \in DOMAIN utgLanguageConfigs
    THEN [threw |-> FALSE,
          value |-> anyPatternMatches(utgLanguageConfigs[language].testFilenamePattern,
                                      basename(filePath), 1)]
    ELSE IF language \in ObjectPrototypeKeys
    \* the lookup yields an inherited property, which is truthy and has no
    \* testFilenamePattern: for (... of undefined) throws
    THEN [threw |-> TRUE, value |-> FALSE]
    ELSE [threw |-> FALSE, value |-> FALSE]

pathContainsTest(normalizedFilePath) ==
    \/ includes(normalizedFilePath, <<"t","e","s","t","s","/">>)
    \/ includes(normalizedFilePath, <<"t","e","s","t","/">>)
    \/ includes(normalizedFilePath, <<"t","s","t","/">>)

\* mutant of isTestFile: a content that mentions a test also makes a test file
isTestFileReadsContent(filePath, languageId, fileContent) ==
    LET normalizedFilePath == normalize(filePath)
        containsTest == pathContainsTest(normalizedFilePath)
        fileNameMatchTestPatterns == isTestFileByName(normalizedFilePath, languageId)
    IN  IF fileNameMatchTestPatterns.threw THEN fileNameMatchTestPatterns
        ELSE [threw |-> FALSE,
              value |-> \/ containsTest
                        \/ fileNameMatchTestPatterns.value
                        \/ includes(fileContent, <<"t","e","s","t">>)]

isTestFile(filePath, languageId, fileContent) ==
    LET normalizedFilePath == normalize(filePath)
        containsTest == pathContainsTest(normalizedFilePath)
        fileNameMatchTestPatterns == isTestFileByName(normalizedFilePath, languageId)
    IN  IF fileNameMatchTestPatterns.threw THEN fileNameMatchTestPatterns
        ELSE [threw |-> FALSE, value |-> containsTest \/ fileNameMatchTestPatterns.value]

(***************************************************************************)
(* filesystemUtilities.ts: isInDirectory.                                  *)
(***************************************************************************)
RECURSIVE popTrailingEmpty(_)
\* while (pieces.length > 0 && pieces[pieces.length - 1] === '') pieces.pop()
popTrailingEmpty(pieces) ==
    IF Len(pieces) > 0 /\ pieces[Len(pieces)] = <<>>
    THEN popTrailingEmpty(SubSeq(pieces, 1, Len(pieces) - 1))
    ELSE pieces

\* the comparison of one piece; caseInsensitive is os.platform() === 'win32'
samePiece(value, other, caseInsensitive) ==
    IF caseInsensitive THEN toLowerCase(value) = toLowerCase(other) ELSE value = other

isInDirectory(d, p, platform) ==
    IF d = <<>> \/ p = <<>> THEN TRUE
    ELSE LET parentDirPieces == split(normalizeSeparator(d), "/")
             containedPathPieces == split(normalizeSeparator(p), "/")
         IN  IF Len(parentDirPieces) > Len(containedPathPieces) THEN FALSE
             ELSE LET popped == popTrailingEmpty(parentDirPieces)
                  IN  \A index \in 1..Len(popped) :
                          samePiece(popped[index], containedPathPieces[index],
                                    platform = "win32")

(***************************************************************************)
(* filesystemUtilities.ts: getFileDistance.                                *)
(***************************************************************************)
\* mutant of commonLoop: the loop does not stop at the first difference
commonLoopNoBreak(filePathA, filePathB, i) == Max(i, Min(Len(filePathA), Len(filePathB)))

RECURSIVE commonLoop(_, _, _)
\* the while loop: the index i at which it stops
commonLoop(filePathA, filePathB, i) ==
    IF i < Min(Len(filePathA), Len(filePathB))
    THEN IF filePathA[i + 1] # filePathB[i + 1] THEN i
         ELSE commonLoop(filePathA, filePathB, i + 1)
    ELSE i

\* the directory pieces of a file path: the pieces but the last
dirPieces(file) ==
    LET pieces == split(normalize(file), "/")
    IN  SubSeq(pieces, 1, Len(pieces) - 1)

getFileDistance(fileA, fileB) ==
    LET filePathA == dirPieces(fileA)
        filePathB == dirPieces(fileB)
        i == commonLoop(filePathA, filePathB, 0)
    IN  Len(SubSeq(filePathA, i + 1, Len(filePathA)))
        + Len(SubSeq(filePathB, i + 1, Len(filePathB)))

(***************************************************************************)
(* getPrefixSuffixOverlap.                                                 *)
(***************************************************************************)
\* mutant of overlapLoop: the lengths are scanned upwards, the shortest overlap wins
overlapLoopAscending(firstString, secondString, i) ==
    LET hits == {k \in 1..i : slice(secondString, 0, k) = sliceLast(firstString, k)}
    IN  IF hits = {} THEN 0 ELSE CHOOSE k \in hits : \A o \in hits : k <= o

RECURSIVE overlapLoop(_, _, _)
\* the while loop: the value of i at which it stops
overlapLoop(firstString, secondString, i) ==
    IF i > 0
    THEN IF slice(secondString, 0, i) = sliceLast(firstString, i) THEN i
         ELSE overlapLoop(firstString, secondString, i - 1)
    ELSE i

getPrefixSuffixOverlap(firstString, secondString) ==
    slice(secondString, 0,
          overlapLoop(firstString, secondString,
                      Min(Len(firstString), Len(secondString))))

(***************************************************************************)
(* The inputs the calls are made with.                                     *)
(***************************************************************************)
SeqsUpTo(A, n) == UNION {[1..k -> A] : k \in 0..n}

\* isTestFile
TestDirs == {<<"s","r","c">>, <<"t","e","s","t">>, <<"t","e","s","t","s">>, <<"t","s","t">>, <<"l","a","t","e","s","t">>}

TestFiles ==
    {<<"W","i","d","g","e","t",".","j","a","v","a">>, <<"W","i","d","g","e","t","T","e","s","t",".","j","a","v","a">>, <<"W","i","d","g","e","t","T","e","s","t","s",".","j","a","v","a">>, <<"T","e","s","t","W","i","d","g","e","t",".","j","a","v","a">>,
     <<"t","e","s","t","_","a",".","p","y">>, <<"a","_","t","e","s","t",".","p","y">>, <<"a",".","t","e","s","t",".","t","s">>, <<"a",".","s","p","e","c",".","t","s","x">>, <<"a",".","s","p","e","c",".","j","s">>}

TestPaths ==
    {joinWith(dirs \o <<f>>, <<sep>>) :
        dirs \in SeqsUpTo(TestDirs, MaxTestDirs), f \in TestFiles, sep \in {"/", "\\"}}

LanguageIds ==
    {"java", "python", "typescript", "javascript", "typescriptreact", "javascriptreact",
     "go", "constructor"}

FileContents == {<<"undefined">>, <<"d","e","f"," ","t","e","s","t","_","a","(",")",":">>}

\* extractFunctions, extractClasses
Chunks ==
    {<<"d","e","f"," ","f","o","o","(",")",":","\n">>, <<" ","d","e","f"," "," ","b","a","r"," ","(","x",")",":">>, <<"c","l","a","s","s"," ","F","o","o",":","\n">>, <<"p","u","b","l","i","c"," ","c","l","a","s","s"," ","F","o","o"," ","{","\n">>,
     <<"p","r","i","v","a","t","e"," ","s","t","a","t","i","c"," ","i","n","t"," ","f","(","i","n","t"," ","a",")"," ","t","h","r","o","w","s"," ","E",";">>, <<"x">>}

Contents == {concat(cs) : cs \in SeqsUpTo(Chunks, MaxChunks)}

\* countSubstringMatches
Words == {<<"f","o","o">>, <<"F","o","o",".","j","a","v","a">>, <<"b","a","r",".","p","y">>, <<>>}

WordLists == SeqsUpTo(Words, MaxList)

(***************************************************************************)
(* The calls of the helpers of codeParsingUtil.ts. Each is synchronous (or *)
(* has no await), so a call is one step.                                   *)
(***************************************************************************)
NoCall == [op |-> "none", args |-> <<>>, ret |-> <<>>]

IdleFilename ==
    /\ fsNames = {}
    /\ dirExists = FALSE
    /\ gn = [pc |-> "idle"]

IdleDirSize ==
    /\ st = <<>>
    /\ val = <<>>
    /\ clock = 0
    /\ duration = 0
    /\ began = {}
    /\ late = {}

IdleText ==
    /\ call = NoCall
    /\ lastIndex = [id \in PatternIds |-> 0]

IdleRemove ==
    /\ rm = [pc |-> "idle"]
    /\ rmFolders = {}

IdleTimeout ==
    /\ ac = [pc |-> "idle"]
    /\ promises = <<>>
    /\ timeoutHandle = "unset"
    /\ jobs = <<>>
    /\ now = 0

IdlePanel ==
    /\ activePanel = 0
    /\ subscriptions = <<>>
    /\ panels = <<>>
    /\ pending = <<>>

Init ==
    /\ IdleRemove
    /\ IdleTimeout
    /\ IdlePanel
    /\ IdleText
    /\ IdleFilename
    /\ IdleDirSize

CallIsTestFile ==
    /\ call = NoCall
    /\ \E filePath \in TestPaths, languageId \in LanguageIds, fileContent \in FileContents :
           call' = [op |-> "isTestFile",
                    args |-> <<filePath, languageId, fileContent>>,
                    ret |-> isTestFile(filePath, languageId, fileContent)]
    /\ UNCHANGED <<lastIndex, fsNames, dirExists, gn, st, val, clock, duration, began, late, removeVars, timeoutVars, panelVars>>

CallExtractFunctions ==
    /\ call = NoCall
    /\ \E fileContent \in Contents, regex \in PatternIds \cup {"undefined"} :
           LET r == extractFunctions(fileContent, regex,
                                     IF regex = "undefined" THEN 0 ELSE lastIndex[regex])
           IN  /\ call' = [op |-> "extractFunctions",
                           args |-> <<fileContent, regex>>, ret |-> r.names]
               /\ lastIndex' = IF regex = "undefined" THEN lastIndex
                               ELSE [lastIndex EXCEPT ![regex] = r.li]
    /\ UNCHANGED <<fsNames, dirExists, gn, st, val, clock, duration, began, late, removeVars, timeoutVars, panelVars>>

CallExtractClasses ==
    /\ call = NoCall
    /\ \E fileContent \in Contents, regex \in PatternIds \cup {"undefined"} :
           LET r == extractClasses(fileContent, regex,
                                   IF regex = "undefined" THEN 0 ELSE lastIndex[regex])
           IN  /\ call' = [op |-> "extractClasses",
                           args |-> <<fileContent, regex>>, ret |-> r.names]
               /\ lastIndex' = IF regex = "undefined" THEN lastIndex
                               ELSE [lastIndex EXCEPT ![regex] = r.li]
    /\ UNCHANGED <<fsNames, dirExists, gn, st, val, clock, duration, began, late, removeVars, timeoutVars, panelVars>>

CallCountSubstringMatches ==
    /\ call = NoCall
    /\ \E arr1 \in WordLists, arr2 \in WordLists :
           call' = [op |-> "countSubstringMatches",
                    args |-> <<arr1, arr2>>,
                    ret |-> countSubstringMatches(arr1, arr2)]
    /\ UNCHANGED <<lastIndex, fsNames, dirExists, gn, st, val, clock, duration, began, late, removeVars, timeoutVars, panelVars>>

\* the caller takes the result
Return ==
    /\ call # NoCall
    /\ call' = NoCall
    /\ UNCHANGED <<lastIndex, fsNames, dirExists, gn, st, val, clock, duration, began, late, removeVars, timeoutVars, panelVars>>

Next ==
    \/ CallIsTestFile
    \/ CallExtractFunctions
    \/ CallExtractClasses
    \/ CallCountSubstringMatches
    \/ Return

Spec == Init /\ [][Next]_vars

(***************************************************************************)
(* filesystemUtilities.ts: getNonexistentFilename.                         *)
(* The directory holds the names fsNames; fs.exists and fs.existsDir answer *)
(* with a boolean and do not fail (a failed existence check reads as "does *)
(* not exist").                                                            *)
(***************************************************************************)
HardCap == 99

DigitChars == <<"0","1","2","3","4","5","6","7","8","9">>

RECURSIVE decimal(_)
\* the decimal digits of a natural number, as the template literal writes them
decimal(n) ==
    IF n < 10 THEN <<DigitChars[n + 1]>>
    ELSE decimal(n \div 10) \o <<DigitChars[(n % 10) + 1]>>

\* crypto.randomBytes(4).toString('hex'): 8 hexadecimal characters
RandTokens == {<<"0","0","c","0","f","f","e","e">>, <<"d","e","a","d","b","e","e","f">>}

\* fs.exists(path.join(dir, filename))
exists(filename) == filename \in fsNames

\* fs.existsDir(dir)
existsDir == dirExists

\* mutant of candidateName: the counter is used up to and including max
candidateNameInclusive(name, suffix, i, max, tok) ==
    IF i = 0 THEN name \o suffix
    ELSE name \o <<"-">> \o (IF i <= max THEN decimal(i) ELSE tok) \o suffix

\* the file name of attempt i; tok is the random token drawn for it
candidateName(name, suffix, i, max, tok) ==
    IF i = 0 THEN name \o suffix
    ELSE name \o <<"-">> \o (IF i < max THEN decimal(i) ELSE tok) \o suffix

\* mutant of capReached: the cap is one attempt later
capReachedLate(i, max) == i > max + HardCap

\* i >= max + 99
capReached(i, max) == i >= max + HardCap

\* mutant of nameMissing: the check of the name is left out
nameMissingNever(name) == FALSE

\* !name
nameMissing(name) == name = <<>>

GnNames == {<<>>, <<"f","o","o">>}

GnSuffixes == {<<".","t","x","t">>, <<>>}

\* the names a directory may hold
FsUniverse ==
    {candidateName(<<"f","o","o">>, <<".","t","x","t">>, i, MaxAttempts, <<>>) : i \in 0..(MaxAttempts - 1)}
    \cup {candidateName(<<"f","o","o">>, <<".","t","x","t">>, MaxAttempts, MaxAttempts, tok) : tok \in RandTokens}
    \cup {<<"f","o","o">>}

InitFilename ==
    /\ IdleRemove
    /\ IdleTimeout
    /\ IdlePanel
    /\ IdleText
    /\ IdleDirSize
    /\ fsNames \in SUBSET FsUniverse
    /\ dirExists \in BOOLEAN
    /\ gn = [pc |-> "idle"]

\* the call, up to the first await: if (!name) throw
GnCall ==
    /\ gn.pc = "idle"
    /\ \E name \in GnNames, suffix \in GnSuffixes, max \in 0..MaxAttempts :
           gn' = [pc |-> IF nameMissing(name) THEN "threw" ELSE "existsDir",
                  name |-> name, suffix |-> suffix, max |-> max,
                  i |-> 0, probes |-> 0, dirChecks |-> 0, filename |-> <<>>,
                  error |-> IF nameMissing(name) THEN "name is empty" ELSE "",
                  ret |-> <<>>]
    /\ UNCHANGED <<call, lastIndex, fsNames, dirExists, st, val, clock, duration, began, late, removeVars, timeoutVars, panelVars>>

\* if (!(await fs.existsDir(dir))) throw
GnExistsDir ==
    /\ gn.pc = "existsDir"
    /\ gn' = IF existsDir THEN [gn EXCEPT !.pc = "loop", !.dirChecks = @ + 1]
             ELSE [gn EXCEPT !.pc = "threw", !.dirChecks = @ + 1,
                             !.error = "directory does not exist"]
    /\ UNCHANGED <<call, lastIndex, fsNames, dirExists, st, val, clock, duration, began, late, removeVars, timeoutVars, panelVars>>

\* one iteration of the for loop: the name of attempt i, the existence probe, and
\* the return or the next attempt
GnProbe ==
    /\ gn.pc = "loop"
    /\ \E tok \in (IF gn.i # 0 /\ ~(gn.i < gn.max) THEN RandTokens ELSE {<<>>}) :
           LET filename == candidateName(gn.name, gn.suffix, gn.i, gn.max, tok)
           IN  gn' = IF ~exists(filename) \/ capReached(gn.i, gn.max)
                     THEN [gn EXCEPT !.pc = "done", !.ret = filename,
                                     !.filename = filename, !.probes = @ + 1]
                     ELSE [gn EXCEPT !.i = @ + 1,
                                     !.filename = filename, !.probes = @ + 1]
    /\ UNCHANGED <<call, lastIndex, fsNames, dirExists, st, val, clock, duration, began, late, removeVars, timeoutVars, panelVars>>

NextFilename ==
    \/ GnCall
    \/ GnExistsDir
    \/ GnProbe

SpecFilename == InitFilename /\ [][NextFilename]_vars

(***************************************************************************)
(* filesystemUtilities.ts: getDirSize.                                     *)
(* The tree under dirPath:                                                 *)
(*   root/  f1 (file, 1)   d1/   l1 -> root (link to a directory: a cycle) *)
(*   d1/    f2 (file, 2)   l2 -> f1 (link to a file)   d2/   u1 (unknown)  *)
(*   d2/    f3 (file, 4)   l3 (link)                                       *)
(* fs.readdir and fs.stat are asynchronous and may fail. Every call of     *)
(* getDirSize and every callback of files.map is a promise: st is its      *)
(* state, val the value it is fulfilled with.                              *)
(***************************************************************************)
FileType == [Unknown |-> 0, File |-> 1, Directory |-> 2, SymbolicLink |-> 64]

Nodes == {"root", "f1", "d1", "l1", "f2", "l2", "d2", "u1", "f3", "l3"}

\* fs.readdir(dirPath): the names of the entries, in the order of the listing
entries(d) ==
    CASE d = "root" -> <<"f1", "d1", "l1">>
      [] d = "d1" -> <<"f2", "l2", "d2", "u1">>
      [] d = "d2" -> <<"f3", "l3">>

\* the type fs.readdir reports for an entry (bit flags: a link to a directory is
\* SymbolicLink + Directory, a link to a file SymbolicLink + File)
ftype(n) ==
    CASE n \in {"root", "d1", "d2"} -> FileType.Directory
      [] n \in {"f1", "f2", "f3"} -> FileType.File
      [] n = "l1" -> FileType.SymbolicLink + FileType.Directory
      [] n = "l2" -> FileType.SymbolicLink + FileType.File
      [] n = "l3" -> FileType.SymbolicLink
      [] n = "u1" -> FileType.Unknown

\* (await fs.stat(filePath)).size; stat follows a link
fsize(n) ==
    CASE n = "f1" -> 1
      [] n = "f2" -> 2
      [] n = "f3" -> 4
      [] n = "l2" -> 1
      [] OTHER -> 0

Dirs == {n \in Nodes : ftype(n) = FileType.Directory}

\* the filesystem capability is fallible: fs.readdir and fs.stat may fail on any path
mayFail(n) == n \in Nodes

\* performance.now() - startTime > duration
exceedsLimit(elapsed, limit) == elapsed > limit

\* mutant of entryStep: the type is tested by its File bit
entryStepFileBit(type) ==
    CASE type = FileType.SymbolicLink -> "zero"
      [] type = FileType.Directory -> "recurse"
      [] type \in {FileType.File, FileType.SymbolicLink + FileType.File} -> "stat"
      [] OTHER -> "zero"

\* what the callback of files.map does with an entry of the given type
entryStep(type) ==
    CASE type = FileType.SymbolicLink -> "zero"
      [] type = FileType.Directory -> "recurse"
      [] type = FileType.File -> "stat"
      [] OTHER -> "zero"

RECURSIVE sumFrom(_, _)
\* sizes.reduce((accumulator, size) => accumulator + size, 0), from position k
sumFrom(names, k) ==
    IF k > Len(names) THEN 0 ELSE val[names[k]] + sumFrom(names, k + 1)

InitDirSize ==
    /\ IdleRemove
    /\ IdleTimeout
    /\ IdlePanel
    /\ IdleText
    /\ IdleFilename
    /\ st = [n \in Nodes |-> "none"]
    /\ val = [n \in Nodes |-> 0]
    /\ clock = 0
    /\ duration \in 0..MaxDuration
    /\ began = {}
    /\ late = {}

\* time passes while the call runs or waits
Tick ==
    /\ clock < MaxClock
    /\ clock' = clock + 1
    /\ UNCHANGED <<call, lastIndex, fsNames, dirExists, gn, st, val, duration, began, late, removeVars, timeoutVars, panelVars>>

\* getDirSize(dirPath, startTime, duration) up to its first await: the budget
\* check, then fs.readdir is issued
DsCall ==
    /\ st["root"] = "none"
    /\ IF exceedsLimit(clock, duration)
       THEN /\ st' = [st EXCEPT !["root"] = "ok"]
            /\ late' = late \cup {"root"}
            /\ began' = began
       ELSE /\ st' = [st EXCEPT !["root"] = "readdir"]
            /\ began' = began \cup {"root"}
            /\ late' = late
    /\ UNCHANGED <<call, lastIndex, fsNames, dirExists, gn, val, clock, duration, removeVars, timeoutVars, panelVars>>

\* the times at which the callbacks of one files.map run: the clock does not go
\* back, and it is read only by the budget check of a directory entry
MapTimes(names) ==
    {tm \in [1..Len(names) -> clock..MaxClock] :
        \A k \in 1..Len(names) :
            LET before == IF k = 1 THEN clock ELSE tm[k - 1]
            IN  /\ tm[k] >= before
                /\ entryStep(ftype(names[k])) # "recurse" => tm[k] = before}

\* fs.readdir answers: files.map runs its callback on every entry, each up to its
\* first await (a directory entry runs getDirSize up to its own first await), and
\* the call waits for Promise.all
DsReaddirDone(d) ==
    /\ st[d] = "readdir"
    /\ \E tm \in MapTimes(entries(d)) :
           LET names == entries(d)
               idx(n) == CHOOSE k \in 1..Len(names) : names[k] = n
               step(n) == entryStep(ftype(n))
               cut(n) == step(n) = "recurse" /\ exceedsLimit(tm[idx(n)], duration)
               kids == Range(names)
           IN  /\ st' = [n \in Nodes |->
                           IF n = d THEN "join"
                           ELSE IF n \notin kids THEN st[n]
                           ELSE IF step(n) = "stat" THEN "stat"
                           ELSE IF step(n) = "recurse" /\ ~cut(n) THEN "readdir"
                           ELSE "ok"]
               /\ began' = began \cup {n \in kids : step(n) = "recurse" /\ ~cut(n)}
               /\ late' = late \cup {n \in kids : cut(n)}
               /\ clock' = tm[Len(names)]
    /\ UNCHANGED <<call, lastIndex, fsNames, dirExists, gn, val, duration, removeVars, timeoutVars, panelVars>>

\* fs.readdir fails: the await throws, nothing catches it, the call rejects
DsReaddirFail(d) ==
    /\ st[d] = "readdir"
    /\ mayFail(d)
    /\ st' = [st EXCEPT ![d] = "err"]
    /\ UNCHANGED <<call, lastIndex, fsNames, dirExists, gn, val, clock, duration, began, late, removeVars, timeoutVars, panelVars>>

\* fs.stat answers: the callback returns stat.size
DsStatDone(f) ==
    /\ st[f] = "stat"
    /\ st' = [st EXCEPT ![f] = "ok"]
    /\ val' = [val EXCEPT ![f] = fsize(f)]
    /\ UNCHANGED <<call, lastIndex, fsNames, dirExists, gn, clock, duration, began, late, removeVars, timeoutVars, panelVars>>

\* fs.stat fails: the callback rejects
DsStatFail(f) ==
    /\ st[f] = "stat"
    /\ mayFail(f)
    /\ st' = [st EXCEPT ![f] = "err"]
    /\ UNCHANGED <<call, lastIndex, fsNames, dirExists, gn, val, clock, duration, began, late, removeVars, timeoutVars, panelVars>>

\* Promise.all is fulfilled when every callback is: the call returns the sum
DsJoin(d) ==
    /\ st[d] = "join"
    /\ \A n \in Range(entries(d)) : st[n] = "ok"
    /\ st' = [st EXCEPT ![d] = "ok"]
    /\ val' = [val EXCEPT ![d] = sumFrom(entries(d), 1)]
    /\ UNCHANGED <<call, lastIndex, fsNames, dirExists, gn, clock, duration, began, late, removeVars, timeoutVars, panelVars>>

\* Promise.all rejects as soon as one callback does: the call rejects
DsJoinReject(d) ==
    /\ st[d] = "join"
    /\ \E n \in Range(entries(d)) : st[n] = "err"
    /\ st' = [st EXCEPT ![d] = "err"]
    /\ UNCHANGED <<call, lastIndex, fsNames, dirExists, gn, val, clock, duration, began, late, removeVars, timeoutVars, panelVars>>

NextDirSize ==
    \/ Tick
    \/ DsCall
    \/ \E d \in Dirs : DsReaddirDone(d)
    \/ \E d \in Dirs : DsReaddirFail(d)
    \/ \E f \in Nodes : DsStatDone(f)
    \/ \E f \in Nodes : DsStatFail(f)
    \/ \E d \in Dirs : DsJoin(d)
    \/ \E d \in Dirs : DsJoinReject(d)

SpecDirSize == InitDirSize /\ [][NextDirSize]_vars

(***************************************************************************)
(* The calls of the path and text primitives.                              *)
(***************************************************************************)
PathPieces == {<<"b">>, <<"b","c">>, <<"B">>}

\* a directory path, with or without a trailing separator
DirPaths(n) ==
    {joinWith(ps, <<"/">>) \o tail : ps \in SeqsUpTo(PathPieces, n), tail \in {<<>>, <<"/">>}}
    \ {<<"/">>}

Platforms == {"linux", "win32"}

DistDirs == {<<"A">>, <<"B">>, <<"D">>}

DistFiles == {<<"C",".","j","a","v","a">>, <<"D",".","j","a","v","a">>}

FilePaths ==
    {joinWith(dirs \o <<f>>, <<sep>>) :
        dirs \in SeqsUpTo(DistDirs, MaxDirs), f \in DistFiles, sep \in {"/", "\\"}}

OverlapStrings == SeqsUpTo({"a", "b", "1"}, MaxStr)

CallIsInDirectory ==
    /\ call = NoCall
    /\ \E d \in DirPaths(MaxDirs), p \in DirPaths(MaxDirs + 1), platform \in Platforms :
           call' = [op |-> "isInDirectory",
                    args |-> <<d, p, platform>>,
                    ret |-> isInDirectory(d, p, platform)]
    /\ UNCHANGED <<lastIndex, fsNames, dirExists, gn, st, val, clock, duration, began, late, removeVars, timeoutVars, panelVars>>

CallGetFileDistance ==
    /\ call = NoCall
    /\ \E fileA \in FilePaths, fileB \in FilePaths :
           call' = [op |-> "getFileDistance",
                    args |-> <<fileA, fileB>>,
                    ret |-> getFileDistance(fileA, fileB)]
    /\ UNCHANGED <<lastIndex, fsNames, dirExists, gn, st, val, clock, duration, began, late, removeVars, timeoutVars, panelVars>>

CallGetPrefixSuffixOverlap ==
    /\ call = NoCall
    /\ \E firstString \in OverlapStrings, secondString \in OverlapStrings :
           call' = [op |-> "getPrefixSuffixOverlap",
                    args |-> <<firstString, secondString>>,
                    ret |-> getPrefixSuffixOverlap(firstString, secondString)]
    /\ UNCHANGED <<lastIndex, fsNames, dirExists, gn, st, val, clock, duration, began, late, removeVars, timeoutVars, panelVars>>

NextPaths ==
    \/ CallIsInDirectory
    \/ CallGetFileDistance
    \/ CallGetPrefixSuffixOverlap
    \/ Return

SpecPaths == Init /\ [][NextPaths]_vars

(***************************************************************************)
(* Properties of the helpers of codeParsingUtil.ts (specification Spec).   *)
(***************************************************************************)
TestDirNames == {<<"t","e","s","t","s">>, <<"t","e","s","t">>, <<"t","s","t">>}

\* a directory segment of the slash-normalized path is tests, test or tst
HasTestSegment(filePath) ==
    LET pieces == split(normalize(filePath), "/")
    IN  \E i \in 1..(Len(pieces) - 1) : pieces[i] \in TestDirNames

\* the language has a table entry and a pattern of it matches the base name
NameMatchesLanguage(filePath, languageId) ==
    /\ languageId \in DOMAIN utgLanguageConfigs
    /\ \E i \in 1..Len(utgLanguageConfigs[languageId].testFilenamePattern) :
           test(utgLanguageConfigs[languageId].testFilenamePattern[i],
                basename(normalize(filePath)), 0)

\* C1: isTestFile returns true exactly when the normalized path has tests, test or
\* tst as a complete path segment or the language has a table entry and the base
\* name matches one of its test-filename patterns; in every other case, an unknown
\* languageId included, it returns false and raises no error.
C1_IsTestFileContract ==
    call.op = "isTestFile" =>
        /\ ~call.ret.threw
        /\ call.ret.value = (\/ HasTestSegment(call.args[1])
                             \/ NameMatchesLanguage(call.args[1], call.args[2]))

\* the pattern matches at position p
MatchesAt(rx, s, p) == Match(rx.re, s, p, <<>>, rx.multiline) # <<>>

RECURSIVE ScanAll(_, _, _)
\* capture group 1 of the non-overlapping matches of rx in s at or after from, each
\* match the leftmost one that starts at or after the end of the one before
ScanAll(rx, s, from) ==
    IF from > Len(s) THEN <<>>
    ELSE IF ~MatchesAt(rx, s, from) THEN ScanAll(rx, s, from + 1)
    ELSE LET m == Match(rx.re, s, from, <<>>, rx.multiline)[1]
         IN  <<SubSeq(s, m.c[1] + 1, m.c[2])>> \o ScanAll(rx, s, m.e)

\* C7: extractFunctions and extractClasses have the same contract: no pattern, the
\* empty sequence; with a pattern, capture group 1 of every non-overlapping match,
\* scanning from the start of content, in order of occurrence, duplicates kept; the
\* empty sequence when nothing matches.
C7_ExtractContract ==
    call.op \in {"extractFunctions", "extractClasses"} =>
        call.ret = IF call.args[2] = "undefined" THEN <<>>
                   ELSE ScanAll(PatternObject(call.args[2]), call.args[1], 0)

\* C7 witness: an extraction returned the same name twice, in two matches
C7_Witness ==
    /\ call.op = "extractFunctions"
    /\ call.args[2] = "python.function"
    /\ Len(call.ret) = 2
    /\ call.ret[1] = call.ret[2]

\* the pairs (position in needles, position in haystacks) whose haystack contains
\* the needle, both in lower case
MatchingPairs(needles, haystacks) ==
    {pr \in (1..Len(needles)) \X (1..Len(haystacks)) :
        includes(toLowerCase(haystacks[pr[2]]), toLowerCase(needles[pr[1]]))}

\* C8: countSubstringMatches returns the number of pairs (n, h), list positions
\* counted separately, such that lower-case h contains lower-case n; the result lies
\* between 0 and |needles| * |haystacks| and the same inputs give the same number.
C8_CountContract ==
    call.op = "countSubstringMatches" =>
        /\ call.ret = Cardinality(MatchingPairs(call.args[1], call.args[2]))
        /\ call.ret >= 0
        /\ call.ret <= Len(call.args[1]) * Len(call.args[2])
        /\ call.ret = countSubstringMatches(call.args[1], call.args[2])

\* C8 witness: the needle foo is counted for Foo.java, not for bar.py
C8_Witness ==
    /\ call.op = "countSubstringMatches"
    /\ call.args = <<<<<<"f","o","o">>>>, <<<<"F","o","o",".","j","a","v","a">>, <<"b","a","r",".","p","y">>>>>>
    /\ call.ret = 1

(***************************************************************************)
(* Properties of the path and text primitives (specification SpecPaths).   *)
(***************************************************************************)
IsPrefixOf(xs, ys) == Len(xs) <= Len(ys) /\ SubSeq(ys, 1, Len(xs)) = xs

\* the segments of a path, the trailing empty ones discarded
SegmentsNoTrailing(p) == popTrailingEmpty(split(normalizeSeparator(p), "/"))

CaseFold(pieces, platform) ==
    IF platform = "win32" THEN [i \in 1..Len(pieces) |-> toLowerCase(pieces[i])]
    ELSE pieces

\* C4: isInDirectory is true when either argument is empty; otherwise exactly when
\* the segments of directory, its trailing empty segments discarded, are a prefix of
\* (or equal to) the segments of candidate: a trailing separator on directory does
\* not change the result.
C4_IsInDirectoryContract ==
    call.op = "isInDirectory" =>
        LET d == call.args[1]
            p == call.args[2]
        IN  call.ret = (\/ d = <<>>
                        \/ p = <<>>
                        \/ IsPrefixOf(CaseFold(SegmentsNoTrailing(d), call.args[3]),
                                      CaseFold(split(normalizeSeparator(p), "/"),
                                               call.args[3])))

\* the length of the longest common prefix of two sequences
CommonPrefixLen(xs, ys) ==
    CHOOSE c \in 0..Min(Len(xs), Len(ys)) :
        /\ SubSeq(xs, 1, c) = SubSeq(ys, 1, c)
        /\ \A k \in (c + 1)..Min(Len(xs), Len(ys)) : SubSeq(xs, 1, k) # SubSeq(ys, 1, k)

\* C9: getFileDistance is (lenA - c) + (lenB - c), lenA and lenB the numbers of
\* directory segments and c the length of their longest common prefix; it is 0 for
\* two files of one directory, never negative, and symmetric.
C9_FileDistanceContract ==
    call.op = "getFileDistance" =>
        LET a == dirPieces(call.args[1])
            b == dirPieces(call.args[2])
            c == CommonPrefixLen(a, b)
        IN  /\ call.ret = (Len(a) - c) + (Len(b) - c)
            /\ (a = b => call.ret = 0)
            /\ call.ret >= 0
            /\ call.ret = getFileDistance(call.args[2], call.args[1])

\* C9 witness: two files of different directories with a common ancestor directory
C9_Witness ==
    /\ call.op = "getFileDistance"
    /\ call.args = <<<<"A","/","B","/","C",".","j","a","v","a">>, <<"A","/","D",".","j","a","v","a">>>>
    /\ call.ret = 1

IsSuffixOf(xs, ys) == Len(xs) <= Len(ys) /\ SubSeq(ys, Len(ys) - Len(xs) + 1, Len(ys)) = xs

\* C10: getPrefixSuffixOverlap(a, b) is the longest string that is a suffix of a and
\* a prefix of b, the empty string when there is none of length >= 1 (a or b empty
\* included), and getPrefixSuffixOverlap(s, s) = s for every non-empty s.
C10_OverlapContract ==
    call.op = "getPrefixSuffixOverlap" =>
        LET a == call.args[1]
            b == call.args[2]
        IN  /\ IsSuffixOf(call.ret, a)
            /\ IsPrefixOf(call.ret, b)
            /\ \A k \in (Len(call.ret) + 1)..Min(Len(a), Len(b)) :
                   SubSeq(a, Len(a) - k + 1, Len(a)) # SubSeq(b, 1, k)
            /\ (a = <<>> \/ b = <<>> => call.ret = <<>>)
            /\ (a = b => call.ret = a)

\* C10 witness: a proper overlap, shorter than both strings, with a shorter overlap
\* below it
C10_Witness ==
    /\ call.op = "getPrefixSuffixOverlap"
    /\ call.args = <<<<"b","a","a">>, <<"a","a","b">>>>
    /\ call.ret = <<"a","a">>

(***************************************************************************)
(* Properties of getNonexistentFilename (specification SpecFilename).      *)
(***************************************************************************)
\* the attempt indices that use the plain name or a counter
CounterAttempts(max) == {0} \cup 1..(max - 1)

\* the name of the counter attempt j
CounterName(j) ==
    IF j = 0 THEN gn.name \o gn.suffix
    ELSE gn.name \o <<"-">> \o decimal(j) \o gn.suffix

RandomNames == {gn.name \o <<"-">> \o tok \o gn.suffix : tok \in RandTokens}

GnRunning == gn.pc \in {"loop", "done"}

\* C2: with a non-empty baseName and an existing dir, the attempts probe baseName +
\* suffix, then baseName-1, baseName-2, ... (the counter while i < max) and the call
\* returns the first of these that does not exist; a random token replaces the
\* counter only from attempt max on, that is only when the plain name and every
\* counter name exist.
C2_CounterOrder ==
    GnRunning =>
        LET free == {j \in CounterAttempts(gn.max) : CounterName(j) \notin fsNames}
            last == gn.probes - 1
        IN  /\ gn.name # <<>> /\ dirExists
            /\ \A j \in CounterAttempts(gn.max) : j < gn.i => CounterName(j) \in fsNames
            /\ gn.probes > 0 =>
                   IF last \in CounterAttempts(gn.max)
                   THEN gn.filename = CounterName(last)
                   ELSE /\ gn.filename \in RandomNames
                        /\ last >= gn.max
                        /\ free = {}
            /\ gn.pc = "done" =>
                   /\ gn.ret = gn.filename
                   /\ free # {} =>
                          LET first == CHOOSE j \in free : \A o \in free : j <= o
                          IN  gn.ret = CounterName(first) /\ gn.probes = first + 1
                   /\ free = {} => gn.ret \in RandomNames

\* C2 witness: foo.txt and foo-1.txt exist, the call returned foo-2.txt
C2_Witness ==
    /\ gn.pc = "done"
    /\ gn.max = 3
    /\ gn.ret = <<"f","o","o","-","2",".","t","x","t">>
    /\ gn.probes = 3

\* C3 as stated: at most maxAttempts + 99 existence probes in total
C3_AtMostMaxPlus99Probes ==
    GnRunning => gn.probes <= gn.max + HardCap

\* C3, amended: the call performs at most maxAttempts + 100 existence probes (the
\* attempts 0 .. maxAttempts + 99), every attempt is one probe, so the call ends,
\* and at the cap it returns the last generated name even if that name exists.
C3_ProbesBounded ==
    GnRunning =>
        /\ gn.probes <= gn.max + HardCap + 1
        /\ gn.i <= gn.max + HardCap
        /\ gn.probes = gn.i + (IF gn.pc = "done" THEN 1 ELSE 0)
        /\ gn.pc = "done" =>
               /\ gn.ret = gn.filename
               /\ gn.ret \in fsNames => gn.probes = gn.max + HardCap + 1

\* C3 witness: the cap was reached and the name returned exists
C3_Witness ==
    /\ gn.pc = "done"
    /\ gn.probes = gn.max + HardCap + 1
    /\ gn.ret \in fsNames

(***************************************************************************)
(* Properties of getDirSize (specification SpecDirSize).                   *)
(***************************************************************************)
\* C5: getDirSize never propagates a filesystem error: when fs.readdir or fs.stat
\* fails anywhere under dir the call still completes with an integer, the failed
\* entry counting 0: the promise of the call is never rejected.
C5_NeverPropagatesError == st["root"] # "err"

\* the directory whose listing holds n
parent(n) == CHOOSE d \in Dirs : n \in Range(entries(d))

RegularFiles == {n \in Nodes : ftype(n) = FileType.File}

Links == {n \in Nodes : ftype(n) >= FileType.SymbolicLink}

RECURSIVE SizeOf(_)
\* the sum of the sizes of a set of files
SizeOf(fs) ==
    IF fs = {} THEN 0
    ELSE LET f == CHOOSE x \in fs : TRUE IN fsize(f) + SizeOf(fs \ {f})

\* C6: whatever the interleaving of the per-entry operations and the progress of
\* time, the result is the sum of the sizes of the regular files of the directories
\* whose visit began within the budget: links count 0 and are not followed, a
\* directory visited after the budget is exceeded counts 0 with its subtree, and the
\* budget is checked once per directory, not per file; if the budget is never
\* exceeded the result is the size of all regular files.
C6_DirSizeResult ==
    st["root"] = "ok" =>
        /\ val["root"] = SizeOf({f \in RegularFiles : parent(f) \in began})
        /\ late = {} => val["root"] = SizeOf(RegularFiles)
        /\ began \cap late = {}
        /\ \A d \in late : \A n \in Range(entries(d)) : st[n] = "none"
        /\ \A n \in Links : st[n] \in {"none", "ok"} /\ val[n] = 0

\* C6 witness: the budget ran out between the visit of root and the visit of d1;
\* the file of root, stat-ed after that, is counted, the subtree of d1 is not
C6_Witness ==
    /\ st["root"] = "ok"
    /\ late = {"d1"}
    /\ val["root"] = fsize("f1")
    /\ exceedsLimit(clock, duration)

(***************************************************************************)
(* filesystemUtilities.ts: tryRemoveFolder.                                *)
(* fs.delete(folder, {recursive: true, force: true}) removes the folder    *)
(* and everything under it, does nothing when the folder is absent, and    *)
(* may fail (permissions, a file in use), in which case it throws.         *)
(***************************************************************************)
\* the argument left out
RmUndefined == <<"undefined">>

RmUniverse == {<<"a">>, <<"a","/","b">>, <<"a","/","b","/","c">>, <<"c">>}

RmFolderArgs == RmUniverse \cup {RmUndefined, <<>>, <<"z","z">>}

\* f is folder or lies under it
isUnder(f, folder) ==
    \/ f = folder
    \/ /\ Len(f) > Len(folder)
       /\ SubSeq(f, 1, Len(folder) + 1) = folder \o <<"/">>

\* the folders left by a successful fs.delete(folder, {recursive: true, force: true})
deleteRecursive(folders, folder) == {f \in folders : ~isUnder(f, folder)}

\* mutant of noFolderGiven: only a missing argument is caught, not the empty string
noFolderGivenUndefinedOnly(folder) == folder = RmUndefined

\* !folder
noFolderGiven(folder) == folder = RmUndefined \/ folder = <<>>

\* a folder exists only inside an existing folder
InitRemove ==
    /\ IdleText
    /\ IdleFilename
    /\ IdleDirSize
    /\ IdleTimeout
    /\ IdlePanel
    /\ rm = [pc |-> "idle"]
    /\ rmFolders \in {fs \in SUBSET RmUniverse :
                        /\ <<"a","/","b">> \in fs => <<"a">> \in fs
                        /\ <<"a","/","b","/","c">> \in fs => <<"a","/","b">> \in fs}

\* the call, up to the await: the guard on the argument, then fs.delete is issued
RmCall ==
    /\ rm.pc = "idle"
    /\ \E folder \in RmFolderArgs :
           rm' = IF noFolderGiven(folder)
                 THEN [pc |-> "done", folder |-> folder, deletes |-> 0, warns |-> 1,
                       failed |-> FALSE, threw |-> FALSE, ret |-> FALSE]
                 ELSE [pc |-> "delete", folder |-> folder, deletes |-> 1, warns |-> 0,
                       failed |-> FALSE, threw |-> FALSE, ret |-> FALSE]
    /\ UNCHANGED <<call, lastIndex, fsNames, dirExists, gn, st, val, clock, duration, began, late, rmFolders, timeoutVars, panelVars>>

\* fs.delete completed: the function falls out of the try block and returns true
RmDeleteDone ==
    /\ rm.pc = "delete"
    /\ rmFolders' = deleteRecursive(rmFolders, rm.folder)
    /\ rm' = [rm EXCEPT !.pc = "done", !.ret = TRUE]
    /\ UNCHANGED <<call, lastIndex, fsNames, dirExists, gn, st, val, clock, duration, began, late, timeoutVars, panelVars>>

\* fs.delete threw: the catch block logs a warning and returns false
RmDeleteFail ==
    /\ rm.pc = "delete"
    /\ rm' = [rm EXCEPT !.pc = "done", !.failed = TRUE, !.warns = @ + 1, !.ret = FALSE]
    /\ UNCHANGED <<call, lastIndex, fsNames, dirExists, gn, st, val, clock, duration, began, late, rmFolders, timeoutVars, panelVars>>

\* the caller takes the result; another call may follow
RmReturn ==
    /\ rm.pc = "done"
    /\ rm' = [pc |-> "idle"]
    /\ UNCHANGED <<call, lastIndex, fsNames, dirExists, gn, st, val, clock, duration, began, late, rmFolders, timeoutVars, panelVars>>

NextRemove ==
    \/ RmCall
    \/ RmDeleteDone
    \/ RmDeleteFail
    \/ RmReturn

SpecRemove == InitRemove /\ [][NextRemove]_vars

\* C11: tryRemoveFolder never throws; with an empty or missing path it returns
\* false without calling fs.delete; when the recursive delete fails it returns
\* false; it returns true only when the recursive force-delete completed without
\* error (and then nothing of the folder is left). A warning is logged in both
\* failing cases.
C11_TryRemoveFolder ==
    /\ rm.pc # "idle" => ~rm.threw /\ rm.deletes <= 1
    /\ rm.pc = "done" =>
        /\ (rm.folder = RmUndefined \/ rm.folder = <<>>) =>
               rm.ret = FALSE /\ rm.deletes = 0 /\ rm.warns = 1
        /\ rm.failed => rm.ret = FALSE /\ rm.warns = 1
        /\ rm.ret = TRUE <=> (rm.deletes = 1 /\ ~rm.failed)
        /\ rm.ret = TRUE => \A f \in rmFolders : ~isUnder(f, rm.folder)

\* C11 witness: the recursive delete of an existing folder with a subfolder failed;
\* the call returned false and the folder is still there
C11_Witness ==
    /\ rm.pc = "done"
    /\ rm.folder = <<"a">>
    /\ rm.failed
    /\ rm.ret = FALSE
    /\ <<"a","/","b">> \in rmFolders

(***************************************************************************)
(* getNonexistentFilename: the two errors.                                 *)
(***************************************************************************)
\* C12: getNonexistentFilename fails with an error and returns no file name when
\* the name is empty or when dir is not an existing directory; in both cases no
\* candidate name is probed with fs.exists, and with an empty name the error is
\* raised before any access to the filesystem (fs.existsDir is not called either).
\* With a name and an existing directory the call does not fail.
C12_ErrorsBeforeProbing ==
    gn.pc # "idle" =>
        /\ gn.name = <<>> =>
               /\ gn.pc = "threw" /\ gn.error = "name is empty"
               /\ gn.ret = <<>> /\ gn.probes = 0 /\ gn.dirChecks = 0
        /\ (gn.name # <<>> /\ ~dirExists /\ gn.pc # "existsDir") =>
               /\ gn.pc = "threw" /\ gn.error = "directory does not exist"
               /\ gn.ret = <<>> /\ gn.probes = 0 /\ gn.dirChecks = 1
        /\ gn.pc = "threw" => gn.name = <<>> \/ ~dirExists
        /\ gn.pc = "done" => gn.error = "" /\ gn.ret # <<>>

\* C12 witness: a call with a name on a missing directory threw after the
\* directory check, although the plain name is free
C12_Witness ==
    /\ gn.pc = "threw"
    /\ gn.name = <<"f","o","o">>
    /\ gn.error = "directory does not exist"
    /\ ~dirExists
    /\ <<"f","o","o",".","t","x","t">> \notin fsNames
    /\ gn.probes = 0

(***************************************************************************)
(* isTestFile and the file content.                                        *)
(***************************************************************************)
\* C13: the result of isTestFile does not depend on fileContent: for the path and
\* the language of any call, every other content (or none) gives the same outcome;
\* and the call reaches no filesystem operation: the directory probed by
\* getNonexistentFilename, the tree of getDirSize and the folders of
\* tryRemoveFolder are never read or written by it.
C13_ContentIndependent ==
    call.op = "isTestFile" =>
        /\ \A fileContent \in FileContents :
               isTestFile(call.args[1], call.args[2], fileContent) = call.ret
        /\ IdleFilename /\ IdleDirSize /\ IdleRemove

\* C13 witness: a content that defines a test was supplied with a path and a
\* language that make no test file, and the answer is false
C13_Witness ==
    /\ call.op = "isTestFile"
    /\ call.args[3] = <<"d","e","f"," ","t","e","s","t","_","a","(",")",":">>
    /\ call.args[1] = <<"s","r","c","/","W","i","d","g","e","t",".","j","a","v","a">>
    /\ call.args[2] = "python"
    /\ call.ret = [threw |-> FALSE, value |-> FALSE]

(***************************************************************************)
(* The language-configuration table across calls.                          *)
(***************************************************************************)
\* the patterns isTestFileByName applies for a language
TestPatternsOf(languageId) ==
    IF languageId \in DOMAIN utgLanguageConfigs
    THEN Range(utgLanguageConfigs[languageId].testFilenamePattern)
    ELSE {}

\* C14: the table is unchanged by use. Whenever no call is running, that is after
\* any sequence of completed isTestFile, extractFunctions, extractClasses calls,
\* the scan position of every shared extraction pattern is 0 as at module load; the
\* file-name patterns, which carry no g flag, keep their scan position through
\* test(); so a repeated extraction with the same content and pattern starts from
\* the same position and returns the same sequence as the call just made.
C14_TableUnchanged ==
    /\ lastIndex = [id \in PatternIds |-> 0]
    /\ (call.op \in {"extractFunctions", "extractClasses"} /\ call.args[2] # "undefined") =>
           extractFunctions(call.args[1], call.args[2], lastIndex[call.args[2]]).names
               = call.ret
    /\ call.op = "isTestFile" =>
           \A pattern \in TestPatternsOf(call.args[2]) :
               /\ ~pattern.global
               /\ exec(pattern, basename(normalize(call.args[1])), 0).li = 0

\* C14 witness: an extraction with the shared java class pattern found a class in
\* the middle of the content, and the pattern's scan position is back at 0
C14_Witness ==
    /\ call.op = "extractClasses"
    /\ call.args[2] = "java.class"
    /\ call.ret = <<<<"F","o","o">>>>
    /\ Len(call.args[1]) > 30
    /\ lastIndex["java.class"] = 0

(***************************************************************************)
(* asyncCallWithTimeout.                                                   *)
(* The promises of one call: asyncPromise (the argument), timeoutPromise,  *)
(* the promise of Promise.race, and the promise .then returns, which is    *)
(* the result of the call. A promise settles once: the resolving functions *)
(* of a settled promise do nothing. The reactions of a promise run as jobs *)
(* of the microtask queue, in order, before the next timer callback or     *)
(* other event; a timer callback runs no earlier than its delay.           *)
(***************************************************************************)
MaxTime == 2        \* asyncCallWithTimeout: largest timeLimit and largest time observed

Messages == {"timed out", "too slow"}

Values == {"v1", "v2"}

Reasons == {"e1", "timed out"}

Pending == [state |-> "pending", kind |-> "none", v |-> ""]

Fulfilled(v) == [state |-> "fulfilled", kind |-> "value", v |-> v]

\* rejected with the reason the caller's promise carries
Rejected(e) == [state |-> "rejected", kind |-> "reason", v |-> e]

\* rejected with new Error(message)
RejectedError(message) == [state |-> "rejected", kind |-> "Error", v |-> message]

\* the resolving functions of promise p called with outcome o
settle(p, o) == IF p.state = "pending" THEN o ELSE p

\* mutant of timerCallback: the timer resolves the timeout promise
timerCallbackResolves(message) == Fulfilled(message)

\* () => reject(new Error(message))
timerCallback(message) == RejectedError(message)

\* clearTimeout(timeoutHandle)
clearTimeout(handle) == IF handle = "armed" THEN "cleared" ELSE handle

\* the first of the two events, for the record
noteFirst(event) == IF ac.first = "none" THEN event ELSE ac.first

InitTimeout ==
    /\ IdleText
    /\ IdleFilename
    /\ IdleDirSize
    /\ IdleRemove
    /\ IdlePanel
    /\ IdleTimeout

\* the call: setTimeout arms the timer, Promise.race subscribes to both promises,
\* .then subscribes to the race; asyncPromise may be settled already
AcCall ==
    /\ ac.pc = "idle"
    /\ \E message \in Messages, timeLimit \in 0..MaxTime,
          asyncPromise \in {Pending} \cup {Fulfilled(v) : v \in Values}
                                     \cup {Rejected(e) : e \in Reasons} :
           /\ ac' = [pc |-> "called", message |-> message, timeLimit |-> timeLimit,
                     first |-> CASE asyncPromise.state = "pending" -> "none"
                                 [] asyncPromise.state = "fulfilled" -> "fulfil"
                                 [] asyncPromise.state = "rejected" -> "reject",
                     settles |-> 0, outcome |-> Pending]
           /\ promises' = [asyncPromise |-> asyncPromise, timeoutPromise |-> Pending,
                           race |-> Pending, result |-> Pending]
           /\ jobs' = IF asyncPromise.state = "pending" THEN <<>>
                      ELSE <<[job |-> "raceReaction", from |-> "asyncPromise"]>>
    /\ timeoutHandle' = "armed"
    /\ now' = 0
    /\ UNCHANGED <<call, lastIndex, fsNames, dirExists, gn, st, val, clock, duration, began, late, removeVars, panelVars>>

\* the caller's operation completes
AcPromiseFulfil ==
    /\ ac.pc = "called"
    /\ jobs = <<>>
    /\ promises.asyncPromise.state = "pending"
    /\ \E v \in Values :
           promises' = [promises EXCEPT !.asyncPromise = Fulfilled(v)]
    /\ jobs' = <<[job |-> "raceReaction", from |-> "asyncPromise"]>>
    /\ ac' = [ac EXCEPT !.first = noteFirst("fulfil")]
    /\ UNCHANGED <<call, lastIndex, fsNames, dirExists, gn, st, val, clock, duration, began, late, removeVars, timeoutHandle, now, panelVars>>

\* the caller's operation fails
AcPromiseReject ==
    /\ ac.pc = "called"
    /\ jobs = <<>>
    /\ promises.asyncPromise.state = "pending"
    /\ \E e \in Reasons :
           promises' = [promises EXCEPT !.asyncPromise = Rejected(e)]
    /\ jobs' = <<[job |-> "raceReaction", from |-> "asyncPromise"]>>
    /\ ac' = [ac EXCEPT !.first = noteFirst("reject")]
    /\ UNCHANGED <<call, lastIndex, fsNames, dirExists, gn, st, val, clock, duration, began, late, removeVars, timeoutHandle, now, panelVars>>

\* the timer callback runs, timeLimit or more after the call
AcTimerFire ==
    /\ ac.pc = "called"
    /\ jobs = <<>>
    /\ timeoutHandle = "armed"
    /\ now >= ac.timeLimit
    /\ timeoutHandle' = "fired"
    /\ promises' = [promises EXCEPT
                       !.timeoutPromise = settle(@, timerCallback(ac.message))]
    /\ jobs' = <<[job |-> "raceReaction", from |-> "timeoutPromise"]>>
    /\ ac' = [ac EXCEPT !.first = noteFirst("timeout")]
    /\ UNCHANGED <<call, lastIndex, fsNames, dirExists, gn, st, val, clock, duration, began, late, removeVars, now, panelVars>>

\* the reaction Promise.race registered on one of its two promises: it calls the
\* resolving functions of the race promise with that promise's outcome
AcRaceReaction ==
    /\ jobs # <<>>
    /\ Head(jobs).job = "raceReaction"
    /\ promises' = [promises EXCEPT !.race = settle(@, promises[Head(jobs).from])]
    /\ jobs' = IF promises.race.state = "pending"
               THEN Append(Tail(jobs), [job |-> "thenReaction", from |-> "race"])
               ELSE Tail(jobs)
    /\ UNCHANGED <<call, lastIndex, fsNames, dirExists, gn, st, val, clock, duration, began, late, removeVars, ac, timeoutHandle, now, panelVars>>

\* the reaction .then registered on the race promise: on fulfilment the callback
\* clears the timer and returns the value; a rejection passes through
AcThenReaction ==
    /\ jobs # <<>>
    /\ Head(jobs).job = "thenReaction"
    /\ timeoutHandle' = IF promises.race.state = "fulfilled"
                        THEN clearTimeout(timeoutHandle) ELSE timeoutHandle
    /\ promises' = [promises EXCEPT !.result = settle(@, promises.race)]
    /\ ac' = [ac EXCEPT !.settles = @ + 1,
                        !.outcome = IF @ = Pending THEN promises.race ELSE @]
    /\ jobs' = Tail(jobs)
    /\ UNCHANGED <<call, lastIndex, fsNames, dirExists, gn, st, val, clock, duration, began, late, removeVars, now, panelVars>>

\* time passes between two events
AcTick ==
    /\ ac.pc = "called"
    /\ jobs = <<>>
    /\ now < MaxTime
    /\ now' = now + 1
    /\ UNCHANGED <<call, lastIndex, fsNames, dirExists, gn, st, val, clock, duration, began, late, removeVars, ac, promises, timeoutHandle, jobs, panelVars>>

NextTimeout ==
    \/ AcCall
    \/ AcPromiseFulfil
    \/ AcPromiseReject
    \/ AcTimerFire
    \/ AcRaceReaction
    \/ AcThenReaction
    \/ AcTick

SpecTimeout == InitTimeout /\ [][NextTimeout]_vars

\* C15: the call settles exactly once, with the first of the events: if
\* asyncPromise fulfils before the timer fires, with its value, and the timer is
\* cleared; if the timer fires while asyncPromise is pending, rejected with an
\* Error carrying message; if asyncPromise rejects first, rejected with its
\* reason. Once every reaction to the first event has run the call is settled, and
\* a later event (the timer after a rejection, the promise after a timeout) leaves
\* the outcome as it was.
C15_FirstEventWins ==
    ac.pc = "called" =>
        /\ ac.settles <= 1
        /\ promises.result.state # "pending" => promises.result = ac.outcome
        /\ promises.result.state = "pending" => ac.settles = 0
        /\ promises.result.state = "fulfilled" =>
               /\ ac.first = "fulfil"
               /\ promises.result = promises.asyncPromise
               /\ timeoutHandle = "cleared"
        /\ promises.result.state = "rejected" =>
               \/ /\ ac.first = "timeout"
                  /\ promises.result = RejectedError(ac.message)
                  /\ now >= ac.timeLimit
               \/ /\ ac.first = "reject"
                  /\ promises.result = promises.asyncPromise
        /\ (jobs = <<>> /\ ac.first # "none") => promises.result.state # "pending"
        /\ ac.first = "none" => promises.result.state = "pending"
        /\ ac.first = "fulfil" => timeoutHandle # "fired"

\* C15 witness: the timer fired first and the call rejected with the message; the
\* operation completed afterwards, and the outcome stayed
C15_Witness ==
    /\ ac.pc = "called"
    /\ ac.first = "timeout"
    /\ promises.asyncPromise = Fulfilled("v1")
    /\ promises.result = RejectedError("too slow")
    /\ jobs = <<>>

(***************************************************************************)
(* auth/ui/vue/show.ts: showAuthWebview.                                   *)
(* The module variables activePanel and subscriptions, and the Panel       *)
(* instances constructed so far. Panel.show() creates the webview of the   *)
(* instance on its first call and reveals it on the next ones; its promise *)
(* is resolved when the call returns, so the rest of showAuthWebview runs  *)
(* as a microtask: other calls made by the same synchronous caller come    *)
(* before it, events of the host (a webview closed by the user) after it.  *)
(***************************************************************************)
MaxShows == 6       \* showAuthWebview: number of calls made

NoPanel == 0

RECURSIVE showsMade(_, _)
\* the calls made so far: each one ran setupConnectionChangeEmitter once
showsMade(ps, k) == IF k > Len(ps) THEN 0 ELSE ps[k].emitters + showsMade(ps, k + 1)

\* mutant of coalesce: a plain assignment in place of ??=
coalesceAlwaysNew(active, fresh) == fresh

\* activePanel ??= new Panel(ctx)
coalesce(active, fresh) == IF active = NoPanel THEN fresh ELSE active

\* Panel.show(): the state of the webview of the instance afterwards
show(webview) == IF webview = "none" THEN "live" ELSE webview

\* !subscriptions
noSubscriptions(subs) == subs = <<>>

InitPanel ==
    /\ IdleText
    /\ IdleFilename
    /\ IdleDirSize
    /\ IdleRemove
    /\ IdleTimeout
    /\ IdlePanel

\* showAuthWebview up to its await
ShowCall ==
    /\ showsMade(panels, 1) < MaxShows
    /\ LET fresh == Len(panels) + 1
           p == coalesce(activePanel, fresh)
           constructed == IF p = fresh
                          THEN Append(panels, [webview |-> "none", handlers |-> 0,
                                               emitters |-> 0])
                          ELSE panels
       IN  /\ activePanel' = p
           /\ panels' = [constructed EXCEPT ![p].emitters = @ + 1,
                                            ![p].webview = show(@)]
           /\ pending' = Append(pending, [panel |-> p])
    /\ UNCHANGED <<call, lastIndex, fsNames, dirExists, gn, st, val, clock, duration, began, late, removeVars, timeoutVars, subscriptions>>

\* showAuthWebview after its await: the dispose handler is registered on the
\* webview show() returned, unless subscriptions is set
ShowResume ==
    /\ pending # <<>>
    /\ LET p == Head(pending).panel
       IN  IF noSubscriptions(subscriptions)
           THEN /\ subscriptions' = <<p>>
                /\ panels' = [panels EXCEPT ![p].handlers = @ + 1]
           ELSE UNCHANGED <<subscriptions, panels>>
    /\ pending' = Tail(pending)
    /\ UNCHANGED <<call, lastIndex, fsNames, dirExists, gn, st, val, clock, duration, began, late, removeVars, timeoutVars, activePanel>>

\* the webview of panel p is disposed; its onDidDispose handlers run: the
\* subscriptions are disposed, activePanel and subscriptions are cleared
WebviewDispose(p) ==
    /\ pending = <<>>
    /\ panels[p].webview = "live"
    /\ IF panels[p].handlers > 0
       THEN /\ panels' = [q \in DOMAIN panels |->
                             IF q = p
                             THEN [panels[q] EXCEPT !.webview = "disposed", !.handlers = 0]
                             ELSE IF subscriptions = <<q>>
                             THEN [panels[q] EXCEPT !.handlers = 0]
                             ELSE panels[q]]
            /\ activePanel' = NoPanel
            /\ subscriptions' = <<>>
       ELSE /\ panels' = [panels EXCEPT ![p].webview = "disposed"]
            /\ UNCHANGED <<activePanel, subscriptions>>
    /\ UNCHANGED <<call, lastIndex, fsNames, dirExists, gn, st, val, clock, duration, began, late, removeVars, timeoutVars, pending>>

NextPanel ==
    \/ ShowCall
    \/ ShowResume
    \/ \E p \in DOMAIN panels : WebviewDispose(p)

SpecPanel == InitPanel /\ [][NextPanel]_vars

LivePanels == {p \in DOMAIN panels : panels[p].webview = "live"}

====
